---- MODULE Spec2Model ----
(***************************************************************************)
(* Image Stitcher: the job-control protocol between the ImageStitcher     *)
(* component (doStitch, the cancel button, the per-job message handler)   *)
(* and the stitch worker (self.onmessage, handleRequest), the main-thread *)
(* fallback executor, and the two layout planners.                        *)
(*                                                                         *)
(* One action is one run-to-completion step of the JavaScript event loop: *)
(* a handler from its start, or from the await it resumes at, to its next *)
(* await or its return.                                                    *)
(***************************************************************************)
EXTENDS Integers, Sequences, FiniteSets, TLC

\* ---------------------------------------------------------------- bounds
MaxJobs == 2        \* doStitch invocations in one behaviour
MaxImages == 2      \* images.length
MaxCancels == 1     \* clicks on the cancel button that post a message
MaxDim == 3         \* native width and height of an image, in px
MaxUniform == 1     \* uniformItemWidth, uniformItemHeight
MaxLimit == 2       \* maxOutputWidth, maxOutputHeight
MaxGap == 1         \* gap
MaxPad == 1         \* outerPadding
MaxBorder == 1      \* borderWidth, borderRadius
MaxOffset == 1      \* wmImageOffsetX, wmImageOffsetY (either sign)

VARIABLES
  images,        \* images.length: how many images are loaded
  wmImageDataUrl,\* whether a watermark image is set (wmImageDataUrl # "")
  useWorker,     \* useWorker state (with workerRef.current set when TRUE)
  isProcessing,  \* isProcessing state
  progress,      \* progress state, a fraction [num, den]
  resultUrl,     \* resultUrl state: 0 for "", else the job whose output it holds
  cancelRef,     \* cancelRef.current
  lastTaskId,    \* workerRef.current.__lastTaskId
  handlers,      \* ids of the onMsg listeners registered on the worker, in order
  jobs,          \* per doStitch invocation: position and job-scoped data
  njobs,         \* doStitch invocations so far
  ncancels,      \* cancel messages posted so far
  inbox,         \* messages posted to the worker, not yet dispatched
  cancelled,     \* the worker's `cancelled` set of ids
  posted,        \* every message the worker has posted, in order
  ndelivered,    \* how many of `posted` were dispatched to the listeners
  options,       \* the layout options of the component
  sizes,         \* the native [w, h] of each loaded image, in list order
  plan,          \* the layout the planner that ran last computed
  ingest,        \* fileToLoadedImage on one file: position and locals
  render         \* the canvas of one job: its settings, context state and draw calls

uiVars == <<images, wmImageDataUrl, useWorker, isProcessing, progress, resultUrl, cancelRef,
            lastTaskId, handlers>>
workerVars == <<inbox, cancelled, posted, ndelivered>>
planVars == <<options, sizes, plan, ingest, render>>
vars == <<images, wmImageDataUrl, useWorker, isProcessing, progress, resultUrl, cancelRef,
          lastTaskId, handlers, jobs, njobs, ncancels,
          inbox, cancelled, posted, ndelivered, options, sizes, plan, ingest, render>>

JobIds == 1..MaxJobs

\* String(Date.now()) of the r-th doStitch invocation; invocations are at
\* least one animation frame apart, so the ids differ.
IdOf(r) == <<"now", r>>
\* the placeholder the cancel button uses when no task id was stored
LatestId == <<"__latest__", 0>>
\* __lastTaskId before any job was posted
NoTaskId == <<"undefined", 0>>

Frac(k, n) == [num |-> k, den |-> n]
IsOne(f) == f.num = f.den

\* ------------------------------------------------------- worker messages
\* A request as handleRequest holds it: its id, and `job`, the doStitch
\* invocation whose images and options it carries.  Every response records
\* in `job` the request that produced it (`blob` is that job's encoded canvas).
StitchRequest(id, r) == [type |-> "stitch", id |-> id, job |-> r]
CancelMessage(id) == [type |-> "cancel", id |-> id]

ProgressMsg(req, i, n) ==
  [id |-> req.id, type |-> "progress", value |-> Frac(i + 1, n),
   message |-> "", job |-> req.job]
ResultMsg(req) ==
  [id |-> req.id, type |-> "result", value |-> Frac(0, 1), message |-> "",
   job |-> req.job]
CancelledMsg(req) ==
  [id |-> req.id, type |-> "cancelled", value |-> Frac(0, 1), message |-> "",
   job |-> req.job]
ErrorMsg(req, message) ==
  [id |-> req.id, type |-> "error", value |-> Frac(0, 1), message |-> message,
   job |-> req.job]

IsTerminal(m) == m.type \in {"result", "cancelled", "error"}

NoJob == [pc |-> "idle", mode |-> "none", id |-> NoTaskId, n |-> 0, wmImage |-> FALSE,
          drawn |-> 0, encoded |-> FALSE, reported |-> Frac(0, 1)]

\* ------------------------------------------------------------ the planners
\* uniformItemWidth, uniformItemHeight, maxOutputWidth and maxOutputHeight are
\* number | "": Unset stands for "", and a number is at least 1 (the inputs'
\* min attribute)
Unset == 0
IsNumber(x) == x # Unset

Max(a, b) == IF a >= b THEN a ELSE b

\* Math.round(num / den) and Math.floor(num / den) for den > 0
Round(num, den) == (2 * num + den) \div (2 * den)
Floor(num, den) == num \div den

\* fractions num/den with den > 0
FracLeq(a, b) == a.num * b.den <= b.num * a.den
FracMin(a, b) == IF FracLeq(a, b) THEN a ELSE b

\* doStitch, per-image target size: s = uniform / native; both sides are
\* Math.max(1, Math.round(native * s))
byWidthMain(img, u) ==
  [tw |-> Max(1, Round(img.w * u, img.w)), th |-> Max(1, Round(img.h * u, img.w))]
byHeightMain(img, u) ==
  [tw |-> Max(1, Round(img.w * u, img.h)), th |-> Max(1, Round(img.h * u, img.h))]

sizedMain(img, o) ==
  IF o.orientation = "vertical" /\ IsNumber(o.uniformItemWidth)
  THEN byWidthMain(img, o.uniformItemWidth)
  ELSE IF o.orientation = "horizontal" /\ IsNumber(o.uniformItemHeight)
  THEN byHeightMain(img, o.uniformItemHeight)
  ELSE IF IsNumber(o.uniformItemWidth)
  THEN byWidthMain(img, o.uniformItemWidth)
  ELSE IF IsNumber(o.uniformItemHeight)
  THEN byHeightMain(img, o.uniformItemHeight)
  ELSE [tw |-> img.w, th |-> img.h]

\* handleRequest, per-image target size: the uniform width is applied, then
\* the uniform height over it
sizedWorker(img, o) ==
  LET byW == IF IsNumber(o.uniformItemWidth)
             THEN [tw |-> o.uniformItemWidth,
                   th |-> Round(o.uniformItemWidth * img.h, img.w)]
             ELSE [tw |-> img.w, th |-> img.h]
  IN  IF IsNumber(o.uniformItemHeight)
      THEN [tw |-> Round(o.uniformItemHeight * img.w, img.h),
            th |-> o.uniformItemHeight]
      ELSE byW

RECURSIVE SumOf(_, _)
SumOf(sized, f) ==
  IF sized = <<>> THEN 0 ELSE Head(sized)[f] + SumOf(Tail(sized), f)
RECURSIVE MaxOf(_, _)
MaxOf(sized, f) ==
  IF sized = <<>> THEN 0 ELSE Max(Head(sized)[f], MaxOf(Tail(sized), f))

\* the overall size before the global scale (the same code in both planners)
rawSize(sized, o) ==
  IF o.orientation = "vertical"
  THEN [w |-> MaxOf(sized, "tw"),
        h |-> SumOf(sized, "th") + o.gap * (Len(sized) - 1)]
  ELSE [w |-> SumOf(sized, "tw") + o.gap * (Len(sized) - 1),
        h |-> MaxOf(sized, "th")]

\* (faulty variant, not the code) the scale without its cap at 1
scaleMainNoCap(raw, o) ==
  IF IsNumber(o.maxOutputWidth)
  THEN IF IsNumber(o.maxOutputHeight)
       THEN FracMin(Frac(o.maxOutputWidth, raw.w), Frac(o.maxOutputHeight, raw.h))
       ELSE Frac(o.maxOutputWidth, raw.w)
  ELSE IF IsNumber(o.maxOutputHeight)
       THEN Frac(o.maxOutputHeight, raw.h)
       ELSE Frac(1, 1)

\* doStitch: scale = Math.min(1, limitW / rawW, limitH / rawH), the limit
\* being Infinity when the bound is unset
scaleMain(raw, o) ==
  LET byW == IF IsNumber(o.maxOutputWidth)
             THEN FracMin(Frac(1, 1), Frac(o.maxOutputWidth, raw.w))
             ELSE Frac(1, 1)
  IN  IF IsNumber(o.maxOutputHeight)
      THEN FracMin(byW, Frac(o.maxOutputHeight, raw.h))
      ELSE byW

\* (faulty variant, not the code) the height bound is forgotten
scaleWorkerWidthOnly(raw, o) ==
  IF IsNumber(o.maxOutputWidth) /\ raw.w > o.maxOutputWidth
  THEN FracMin(Frac(1, 1), Frac(o.maxOutputWidth, raw.w))
  ELSE Frac(1, 1)

\* handleRequest: scale starts at 1 and is lowered for each bound exceeded
scaleWorker(raw, o) ==
  LET byW == IF IsNumber(o.maxOutputWidth) /\ raw.w > o.maxOutputWidth
             THEN FracMin(Frac(1, 1), Frac(o.maxOutputWidth, raw.w))
             ELSE Frac(1, 1)
  IN  IF IsNumber(o.maxOutputHeight) /\ raw.h > o.maxOutputHeight
      THEN FracMin(byW, Frac(o.maxOutputHeight, raw.h))
      ELSE byW

\* doStitch: Math.max(1, Math.floor(raw * scale))
finalMain(x, scale) == Max(1, Floor(x * scale.num, scale.den))
\* handleRequest: Math.max(1, Math.round(raw * scale))
finalWorker(x, scale) == Max(1, Round(x * scale.num, scale.den))

\* the planner of the main-thread doStitch
planMain(imgs, o) ==
  LET sized == [k \in DOMAIN imgs |-> sizedMain(imgs[k], o)]
      raw == rawSize(sized, o)
      scale == scaleMain(raw, o)
  IN  [planner |-> "main", sized |-> sized, rawW |-> raw.w, rawH |-> raw.h,
       scale |-> scale, finalW |-> finalMain(raw.w, scale),
       finalH |-> finalMain(raw.h, scale),
       scaledGap |-> Round(o.gap * scale.num, scale.den)]

\* the planner of the worker's handleRequest
planWorker(imgs, o) ==
  LET sized == [k \in DOMAIN imgs |-> sizedWorker(imgs[k], o)]
      raw == rawSize(sized, o)
      scale == scaleWorker(raw, o)
  IN  [planner |-> "worker", sized |-> sized, rawW |-> raw.w, rawH |-> raw.h,
       scale |-> scale, finalW |-> finalWorker(raw.w, scale),
       finalH |-> finalWorker(raw.h, scale),
       scaledGap |-> Round(o.gap * scale.num, scale.den)]

NoPlan == [planner |-> "none"]

\* the option state of a fresh component
DefaultOptions ==
  [orientation |-> "vertical", gap |-> 0, uniformItemWidth |-> Unset,
   uniformItemHeight |-> Unset, maxOutputWidth |-> 4096,
   maxOutputHeight |-> 8192]

\* ------------------------------------------------------- EXIF orientation
\* A canvas transform [a, b, c, d, e, f]: the user-space point (x, y) is drawn
\* at (a x + c y + e, b x + d y + f).  Every rotation of correctOrientation
\* is a multiple of a quarter turn, whose cosine and sine are 0, 1 or -1.
Identity == [a |-> 1, b |-> 0, c |-> 0, d |-> 1, e |-> 0, f |-> 0]
translate(m, tx, ty) ==
  [m EXCEPT !.e = m.a * tx + m.c * ty + m.e, !.f = m.b * tx + m.d * ty + m.f]
scale(m, sx, sy) ==
  [m EXCEPT !.a = m.a * sx, !.b = m.b * sx, !.c = m.c * sy, !.d = m.d * sy]
\* ctx.rotate(q * Math.PI / 2) for q in -1..2
rotate(m, q) ==
  LET cos == IF q = 0 THEN 1 ELSE IF q = 2 THEN -1 ELSE 0
      sin == IF q = 1 THEN 1 ELSE IF q = -1 THEN -1 ELSE 0
  IN  [m EXCEPT !.a = m.a * cos + m.c * sin, !.b = m.b * cos + m.d * sin,
                !.c = m.c * cos - m.a * sin, !.d = m.d * cos - m.b * sin]

\* (faulty variant, not the code) every code takes the default branch
correctOrientationDefault(w, h, orientation) ==
  [width |-> w, height |-> h, m |-> Identity]

\* correctOrientation: the canvas size and transform set up by the switch
\* for an image of w x h; the image is then drawn at (0, 0)
correctOrientation(w, h, orientation) ==
  CASE orientation = 2 ->
         [width |-> w, height |-> h, m |-> scale(translate(Identity, w, 0), -1, 1)]
    [] orientation = 3 ->
         [width |-> w, height |-> h, m |-> rotate(translate(Identity, w, h), 2)]
    [] orientation = 4 ->
         [width |-> w, height |-> h, m |-> scale(translate(Identity, 0, h), 1, -1)]
    [] orientation = 5 ->
         [width |-> h, height |-> w, m |-> scale(rotate(Identity, 1), 1, -1)]
    [] orientation = 6 ->
         [width |-> h, height |-> w, m |-> translate(rotate(Identity, 1), 0, -h)]
    [] orientation = 7 ->
         [width |-> h, height |-> w,
          m |-> scale(translate(rotate(Identity, 1), w, -h), -1, 1)]
    [] orientation = 8 ->
         [width |-> h, height |-> w, m |-> translate(rotate(Identity, -1), -w, 0)]
    [] OTHER -> [width |-> w, height |-> h, m |-> Identity]

NoCanvas == [width |-> 0, height |-> 0, m |-> Identity]

\* fileToLoadedImage before it is called: the file holds an image of
\* w x h; `exif` is what exifr.parse gave, `url` the data URL returned
NoIngest == [pc |-> "idle", w |-> 1, h |-> 1, exif |-> "pending", orientation |-> 0,
             warned |-> FALSE, canvas |-> NoCanvas, url |-> "none",
             width |-> 0, height |-> 0]

\* ------------------------------------------------------ the 2D context
\* Lengths on the canvas are in half pixels, so that the halves the watermark
\* anchors are made of (w / 2, base.width / 2) stay whole numbers.
HalfPx(x) == 2 * x

\* A context: the current transform and whether a clip is set, the stack of
\* saved states, and the draw calls made so far.  Each draw call records the
\* state it was drawn in and `entry`, the state its step began in.
NoContext == [m |-> Identity, clip |-> FALSE, stack |-> <<>>, ops |-> <<>>]
StateOf(c) == [m |-> c.m, clip |-> c.clip, depth |-> Len(c.stack)]
save(c) == [c EXCEPT !.stack = Append(@, [m |-> c.m, clip |-> c.clip])]
restore(c) ==
  IF c.stack = <<>> THEN c
  ELSE [c EXCEPT !.m = c.stack[Len(c.stack)].m,
                 !.clip = c.stack[Len(c.stack)].clip,
                 !.stack = SubSeq(c.stack, 1, Len(c.stack) - 1)]
translateBy(c, x, y) == [c EXCEPT !.m = translate(@, x, y)]
clip(c) == [c EXCEPT !.clip = TRUE]
drawCall(c, kind, x, y, entry) ==
  [c EXCEPT !.ops = Append(@, [kind |-> kind, x |-> x, y |-> y, m |-> c.m,
                               clip |-> c.clip, entry |-> entry])]

\* the non-tiled anchor of a watermark of w x h px on a canvas of base px
\* (text: margin 16 and textH 16; image: the literal 16)
wmAnchor(position, base, w, h) ==
  CASE position = "tl" -> [x |-> w + HalfPx(16), y |-> h + HalfPx(16)]
    [] position = "tr" -> [x |-> HalfPx(base.width) - w - HalfPx(16), y |-> h + HalfPx(16)]
    [] position = "bl" -> [x |-> w + HalfPx(16), y |-> HalfPx(base.height) - h - HalfPx(16)]
    [] position = "center" -> [x |-> base.width, y |-> base.height]
    [] OTHER -> [x |-> HalfPx(base.width) - w - HalfPx(16),
                 y |-> HalfPx(base.height) - h - HalfPx(16)]

\* drawAt of drawWatermark: save, translate, draw at the origin, restore
drawAt(c, kind, x, y, entry) ==
  restore(drawCall(translateBy(save(c), x, y), kind, x, y, entry))

\* the worker's drawWatermark (tile false): the anchor plus (offsetX, offsetY)
drawWatermarkWorker(c, base, kind, position, w, h, offsetX, offsetY) ==
  LET a == wmAnchor(position, base, w, h) IN
    restore(drawAt(save(c), kind, a.x + HalfPx(offsetX), a.y + HalfPx(offsetY),
                   StateOf(c)))

\* the main thread's drawWatermark (tile false): offsetX and offsetY are not
\* read
drawWatermarkMain(c, base, kind, position, w, h, offsetX, offsetY) ==
  LET a == wmAnchor(position, base, w, h) IN
    restore(drawAt(save(c), kind, a.x, a.y, StateOf(c)))

\* the draw calls of the image loop (where each image goes is drawImages)
RECURSIVE drawImageCalls(_, _, _)
drawImageCalls(c, i, n) ==
  IF i > n THEN c
  ELSE drawImageCalls(drawCall(c, "image", i, 0, StateOf(c)), i + 1, n)

\* the canvas of padded size, the background, then save, translate(pad, pad),
\* the rounded clip when borderRadius > 0, and the images
drawContent(ro) ==
  LET c0 == drawCall(NoContext, "background", 0, 0, StateOf(NoContext))
      c1 == translateBy(save(c0), HalfPx(ro.outerPadding), HalfPx(ro.outerPadding))
      c2 == IF ro.borderRadius > 0 THEN clip(c1) ELSE c1
  IN  drawImageCalls(c2, 1, ro.n)

baseOf(ro) == [width |-> ro.finalW + 2 * ro.outerPadding,
               height |-> ro.finalH + 2 * ro.outerPadding]

\* handleRequest's drawing of a job that is not cancelled: content, border
\* stroke, text watermark, image watermark
renderWorker(ro) ==
  LET c3 == drawContent(ro)
      c4 == IF ro.borderWidth > 0
            THEN restore(drawCall(save(c3), "border", 0, 0, StateOf(c3)))
            ELSE c3
      c5 == IF ro.wmText
            THEN drawWatermarkWorker(c4, baseOf(ro), "wmText", ro.wmPosition,
                                     ro.textW, 16, 0, 0)
            ELSE c4
  IN  IF ro.wmImage
      THEN drawWatermarkWorker(c5, baseOf(ro), "wmImage", ro.wmPosition,
                               ro.wmW, ro.wmH, ro.wmImageOffsetX, ro.wmImageOffsetY)
      ELSE c5

\* doStitch's drawing of a job that is not cancelled: content, text
\* watermark, image watermark
renderMain(ro) ==
  LET c3 == drawContent(ro)
      c5 == IF ro.wmText
            THEN drawWatermarkMain(c3, baseOf(ro), "wmText", ro.wmPosition,
                                   ro.textW, 16, 0, 0)
            ELSE c3
  IN  IF ro.wmImage
      THEN drawWatermarkMain(c5, baseOf(ro), "wmImage", ro.wmPosition,
                             ro.wmW, ro.wmH, ro.wmImageOffsetX, ro.wmImageOffsetY)
      ELSE c5

\* the render settings of a fresh component, one image loaded
DefaultRender ==
  [n |-> 1, finalW |-> 1, finalH |-> 1, outerPadding |-> 0, borderRadius |-> 0,
   borderWidth |-> 0, wmText |-> FALSE, wmImage |-> FALSE, wmPosition |-> "br",
   textW |-> 1, wmW |-> 1, wmH |-> 1, wmImageOffsetX |-> 0, wmImageOffsetY |-> 0]

NoRender == [by |-> "none", ro |-> DefaultRender, ctx |-> NoContext]

\* The component once the user has loaded the images and chosen the settings;
\* no job was started yet and the worker is idle.
Init ==
  /\ images \in 1..MaxImages
  /\ wmImageDataUrl \in BOOLEAN
  /\ useWorker \in BOOLEAN
  /\ isProcessing = FALSE
  /\ progress = Frac(0, 1)
  /\ resultUrl = 0
  /\ cancelRef = FALSE
  /\ lastTaskId = NoTaskId
  /\ handlers = <<>>
  /\ jobs = [r \in JobIds |-> NoJob]
  /\ njobs = 0
  /\ ncancels = 0
  /\ inbox = <<>>
  /\ cancelled = {}
  /\ posted = <<>>
  /\ ndelivered = 0
  /\ options = DefaultOptions
  /\ sizes = [k \in 1..images |-> [w |-> 1, h |-> 1]]
  /\ plan = NoPlan
  /\ ingest = NoIngest
  /\ render = NoRender

\* ------------------------------------------------------------- the worker
\* the request of job r, as the closure of handleRequest holds it
Req(r) == StitchRequest(jobs[r].id, r)

\* (faulty variant, not the code) one flag for every job: any id in the set
\* cancels the running request
checkCancelledAnyId(id, cset) == cset # {}

\* checkCancelled: TRUE when it throws Error("cancelled")
checkCancelled(id, cset) == id \in cset

\* (faulty variant, not the code) the progress posts of the loop come out last image first
RECURSIVE drawLoopReversed(_, _, _, _)
drawLoopReversed(req, n, i, cset) ==
  IF i >= n
  THEN [msgs |-> <<>>, drawn |-> i, thrown |-> FALSE]
  ELSE IF req.id \in cset
       THEN [msgs |-> <<>>, drawn |-> i + 1, thrown |-> TRUE]
       ELSE LET rest == drawLoopReversed(req, n, i + 1, cset)
            IN  [msgs |-> rest.msgs \o <<ProgressMsg(req, i, n)>>,
                 drawn |-> rest.drawn, thrown |-> rest.thrown]

\* The draw loop of handleRequest from image i on (either orientation): after
\* each drawImage, checkCancelled, then the progress post.
RECURSIVE drawLoop(_, _, _, _)
drawLoop(req, n, i, cset) ==
  IF i >= n
  THEN [msgs |-> <<>>, drawn |-> i, thrown |-> FALSE]
  ELSE IF checkCancelled(req.id, cset)
       THEN [msgs |-> <<>>, drawn |-> i + 1, thrown |-> TRUE]
       ELSE LET rest == drawLoop(req, n, i + 1, cset)
            IN  [msgs |-> <<ProgressMsg(req, i, n)>> \o rest.msgs,
                 drawn |-> rest.drawn, thrown |-> rest.thrown]

\* the catch block of handleRequest
catchError(req, message) == <<ErrorMsg(req, message)>>

\* handleRequest from the resolution of the bitmap decode to its next await
\* (the watermark image load, or convertToBlob) or its return through catch.
afterDecode(req, n, wmImage, cset) ==
  IF checkCancelled(req.id, cset)
  THEN [msgs |-> catchError(req, "cancelled"), pc |-> "done", drawn |-> 0,
        encoded |-> FALSE]
  ELSE LET loop == drawLoop(req, n, 0, cset) IN
       IF loop.thrown
       THEN [msgs |-> loop.msgs \o catchError(req, "cancelled"), pc |-> "done",
             drawn |-> loop.drawn, encoded |-> FALSE]
       ELSE IF wmImage
            THEN [msgs |-> loop.msgs, pc |-> "wmLoading", drawn |-> loop.drawn,
                  encoded |-> FALSE]
            ELSE [msgs |-> loop.msgs, pc |-> "encoding", drawn |-> loop.drawn,
                  encoded |-> TRUE]

\* (faulty variant, not the code) the late check posts cancelled and falls through to the encoding
afterWatermarkNoReturn(req, cset) ==
  IF req.id \in cset
  THEN [msgs |-> <<CancelledMsg(req)>>, pc |-> "encoding", encoded |-> TRUE,
        cancelled |-> cset \ {req.id}]
  ELSE [msgs |-> <<>>, pc |-> "encoding", encoded |-> TRUE, cancelled |-> cset]

\* handleRequest from the resolution of the watermark image load: the image
\* watermark is drawn, then the late cancellation check, then convertToBlob.
afterWatermark(req, cset) ==
  IF req.id \in cset
  THEN [msgs |-> <<CancelledMsg(req)>>, pc |-> "done", encoded |-> FALSE,
        cancelled |-> cset \ {req.id}]
  ELSE [msgs |-> <<>>, pc |-> "encoding", encoded |-> TRUE, cancelled |-> cset]

\* self.onmessage: a cancel message adds its id to the set (every id the
\* requester sends is a non-empty string); a request starts handleRequest,
\* which runs to its first await (the bitmap decode).
OnMessage ==
  /\ inbox # <<>>
  /\ LET data == Head(inbox) IN
       IF data.type = "cancel"
       THEN /\ cancelled' = cancelled \cup {data.id}
            /\ UNCHANGED jobs
       ELSE /\ jobs' = [jobs EXCEPT ![data.job].pc = "decoding"]
            /\ UNCHANGED cancelled
  /\ inbox' = Tail(inbox)
  /\ UNCHANGED <<uiVars, njobs, ncancels, posted, ndelivered>>
  /\ UNCHANGED planVars

\* Promise.all(images.map(dataUrlToImageBitmap)) settles
DecodeSettled(r, ok) ==
  /\ jobs[r].pc = "decoding"
  /\ LET out == IF ok
                THEN afterDecode(Req(r), jobs[r].n, jobs[r].wmImage, cancelled)
                ELSE [msgs |-> catchError(Req(r), "decode"), pc |-> "done",
                      drawn |-> 0, encoded |-> FALSE]
     IN /\ posted' = posted \o out.msgs
        /\ jobs' = [jobs EXCEPT ![r].pc = out.pc, ![r].drawn = out.drawn,
                                ![r].encoded = out.encoded]
  /\ UNCHANGED <<uiVars, njobs, ncancels, inbox, cancelled, ndelivered>>
  /\ UNCHANGED planVars

\* dataUrlToImageBitmap(wmImageDataUrl) settles
WatermarkSettled(r, ok) ==
  /\ jobs[r].pc = "wmLoading"
  /\ jobs[r].mode = "worker"
  /\ LET out == IF ok
                THEN afterWatermark(Req(r), cancelled)
                ELSE [msgs |-> catchError(Req(r), "wmload"), pc |-> "done",
                      encoded |-> FALSE, cancelled |-> cancelled]
     IN /\ posted' = posted \o out.msgs
        /\ cancelled' = out.cancelled
        /\ jobs' = [jobs EXCEPT ![r].pc = out.pc, ![r].encoded = out.encoded]
  /\ UNCHANGED <<uiVars, njobs, ncancels, inbox, ndelivered>>
  /\ UNCHANGED planVars

\* (faulty variant, not the code) the blob is dropped: no result is posted
afterEncodeSilent(req) == <<>>

\* handleRequest from the resolution of convertToBlob
afterEncode(req) == <<ResultMsg(req)>>

\* canvas.convertToBlob settles
EncodeSettled(r, ok) ==
  /\ jobs[r].pc = "encoding"
  /\ posted' = posted \o (IF ok THEN afterEncode(Req(r))
                                ELSE catchError(Req(r), "encode"))
  /\ jobs' = [jobs EXCEPT ![r].pc = "done"]
  /\ UNCHANGED <<uiVars, njobs, ncancels, inbox, cancelled, ndelivered>>
  /\ UNCHANGED planVars

\* --------------------------------------------- the requester's listeners
Remove(s, x) == SelectSeq(s, LAMBDA y : y # x)
InSeq(x, s) == \E k \in DOMAIN s : s[k] = x

UiState == [isProcessing |-> isProcessing, progress |-> progress,
            resultUrl |-> resultUrl, handlers |-> handlers]

\* (faulty variant, not the code) the listener without its id filter
onMsgAnyId(id, msg, ui) ==
  IF msg.type = "progress"
  THEN [ui EXCEPT !.progress = msg.value]
  ELSE IF msg.type = "result"
       THEN [ui EXCEPT !.resultUrl = msg.job, !.isProcessing = FALSE,
                       !.progress = Frac(1, 1), !.handlers = Remove(@, id)]
  ELSE IF msg.type = "cancelled"
       THEN [ui EXCEPT !.isProcessing = FALSE, !.progress = Frac(0, 1),
                       !.handlers = Remove(@, id)]
  ELSE [ui EXCEPT !.isProcessing = FALSE, !.handlers = Remove(@, id)]

\* onMsg, the listener doStitch registers for the job with this id (the
\* `cancelled` notice it also raises is display-only and is left out)
onMsg(id, msg, ui) ==
  IF msg.id # id THEN ui
  ELSE IF msg.type = "progress"
       THEN [ui EXCEPT !.progress = msg.value]
  ELSE IF msg.type = "result"
       THEN [ui EXCEPT !.resultUrl = msg.job, !.isProcessing = FALSE,
                       !.progress = Frac(1, 1), !.handlers = Remove(@, id)]
  ELSE IF msg.type = "cancelled"
       THEN [ui EXCEPT !.isProcessing = FALSE, !.progress = Frac(0, 1),
                       !.handlers = Remove(@, id)]
  ELSE IF msg.type = "error"
       THEN [ui EXCEPT !.isProcessing = FALSE, !.handlers = Remove(@, id)]
  ELSE ui

\* one message event dispatched to the listeners registered when it fires,
\* in registration order; a listener removed meanwhile is not called
RECURSIVE dispatch(_, _, _)
dispatch(msg, hs, ui) ==
  IF hs = <<>> THEN ui
  ELSE dispatch(msg, Tail(hs),
                IF InSeq(Head(hs), ui.handlers) THEN onMsg(Head(hs), msg, ui)
                ELSE ui)

\* the next posted message reaches the main thread
Deliver ==
  /\ ndelivered < Len(posted)
  /\ LET ui == dispatch(posted[ndelivered + 1], handlers, UiState) IN
       /\ isProcessing' = ui.isProcessing
       /\ progress' = ui.progress
       /\ resultUrl' = ui.resultUrl
       /\ handlers' = ui.handlers
  /\ ndelivered' = ndelivered + 1
  /\ UNCHANGED <<images, wmImageDataUrl, useWorker, cancelRef, lastTaskId, jobs, njobs, ncancels,
                 inbox, cancelled, posted>>
  /\ UNCHANGED planVars

\* ---------------------------------------------------------------- doStitch
\* doStitch to its first await (it returns at once when images is empty):
\* the job state is reset; the job works on the images and options of the
\* render it was created in
DoStitchStart ==
  /\ images # 0
  /\ njobs < MaxJobs
  /\ njobs' = njobs + 1
  /\ jobs' = [jobs EXCEPT ![njobs + 1] =
                [NoJob EXCEPT !.pc = "frame", !.n = images,
                              !.wmImage = wmImageDataUrl]]
  /\ isProcessing' = TRUE
  /\ progress' = Frac(0, 1)
  /\ cancelRef' = FALSE
  /\ UNCHANGED <<images, wmImageDataUrl, useWorker, resultUrl, lastTaskId,
                 handlers, ncancels, workerVars>>
  /\ UNCHANGED planVars

\* (faulty variant, not the code) the generate button is never disabled
GenerateAlways == DoStitchStart

\* a click on the generate button, which is disabled while isProcessing
Generate ==
  /\ ~isProcessing
  /\ DoStitchStart

\* the worker pipeline of doStitch: the id is stored as __lastTaskId, the
\* listener is registered and the request is posted
postToWorker(r) ==
  /\ lastTaskId' = IdOf(r)
  /\ handlers' = Append(handlers, IdOf(r))
  /\ inbox' = Append(inbox, StitchRequest(IdOf(r), r))
  /\ jobs' = [jobs EXCEPT ![r].pc = "posted", ![r].mode = "worker",
                          ![r].id = IdOf(r)]

\* doStitch resumes after its first nextFrame and takes the worker pipeline
\* or goes on to load the images on the main thread
FirstFrame(r) ==
  /\ jobs[r].pc = "frame"
  /\ IF useWorker
     THEN postToWorker(r)
     ELSE /\ jobs' = [jobs EXCEPT ![r].pc = "loading", ![r].mode = "main"]
          /\ UNCHANGED <<lastTaskId, handlers, inbox>>
  /\ UNCHANGED <<images, wmImageDataUrl, useWorker, isProcessing, progress, resultUrl, cancelRef,
                 njobs, ncancels, cancelled, posted, ndelivered>>
  /\ UNCHANGED planVars

\* One iteration of the main-thread draw loop (either orientation), run to
\* its nextFrame or its return: gap band, drawImage, setProgress, then the
\* cancelRef check.
drawOne(r) ==
  LET i == jobs[r].drawn
      value == Frac(i + 1, jobs[r].n)
  IN /\ progress' = value
     /\ IF cancelRef
        THEN /\ isProcessing' = FALSE
             /\ jobs' = [jobs EXCEPT ![r].pc = "cancelled", ![r].drawn = i + 1,
                                     ![r].reported = value]
        ELSE /\ isProcessing' = isProcessing
             /\ jobs' = [jobs EXCEPT ![r].pc = "yield", ![r].drawn = i + 1,
                                     ![r].reported = value]
     /\ UNCHANGED resultUrl

\* (faulty variant, not the code) cancelRef is tested once more before the
\* encoding
encodeMainChecked(r) ==
  IF cancelRef
  THEN /\ isProcessing' = FALSE
       /\ jobs' = [jobs EXCEPT ![r].pc = "cancelled"]
       /\ UNCHANGED <<resultUrl, progress>>
  ELSE /\ resultUrl' = r
       /\ isProcessing' = FALSE
       /\ progress' = Frac(1, 1)
       /\ jobs' = [jobs EXCEPT ![r].pc = "finished", ![r].encoded = TRUE,
                               ![r].reported = Frac(1, 1)]

\* the end of the main-thread doStitch: canvas.toDataURL, setResultUrl,
\* setIsProcessing(false), setProgress(1)
encodeMain(r) ==
  /\ resultUrl' = r
  /\ isProcessing' = FALSE
  /\ progress' = Frac(1, 1)
  /\ jobs' = [jobs EXCEPT ![r].pc = "finished", ![r].encoded = TRUE,
                          ![r].reported = Frac(1, 1)]

\* main-thread doStitch after its draw loop: the text watermark, then the
\* await of the watermark image when one is set, else the encoding
afterLoop(r) ==
  IF jobs[r].wmImage
  THEN /\ jobs' = [jobs EXCEPT ![r].pc = "wmLoading"]
       /\ UNCHANGED <<resultUrl, isProcessing, progress>>
  ELSE encodeMain(r)

\* Promise.all(images.map(loadImage)) settles on the main thread: a rejection
\* leaves doStitch rejected; else the plan is computed, the 2D context is
\* acquired (ctx = FALSE: getContext returned null) and the first image drawn
LoadSettled(r, ok, ctx) ==
  /\ jobs[r].pc = "loading"
  /\ IF ~ok
     THEN /\ jobs' = [jobs EXCEPT ![r].pc = "failed"]
          /\ UNCHANGED <<resultUrl, isProcessing, progress>>
     ELSE IF ~ctx
     THEN /\ jobs' = [jobs EXCEPT ![r].pc = "noctx"]
          /\ UNCHANGED <<resultUrl, isProcessing, progress>>
     ELSE drawOne(r)
  /\ UNCHANGED <<images, wmImageDataUrl, useWorker, cancelRef, lastTaskId, handlers, njobs,
                 ncancels, workerVars>>
  /\ UNCHANGED planVars

\* the nextFrame awaited at the end of a loop iteration resolves
NextFrame(r) ==
  /\ jobs[r].pc = "yield"
  /\ IF jobs[r].drawn < jobs[r].n THEN drawOne(r) ELSE afterLoop(r)
  /\ UNCHANGED <<images, wmImageDataUrl, useWorker, cancelRef, lastTaskId, handlers, njobs,
                 ncancels, workerVars>>
  /\ UNCHANGED planVars

\* loadImage(wmImageDataUrl) settles on the main thread
MainWatermarkSettled(r, ok) ==
  /\ jobs[r].pc = "wmLoading"
  /\ jobs[r].mode = "main"
  /\ IF ok
     THEN encodeMain(r)
     ELSE /\ jobs' = [jobs EXCEPT ![r].pc = "failed"]
          /\ UNCHANGED <<resultUrl, isProcessing, progress>>
  /\ UNCHANGED <<images, wmImageDataUrl, useWorker, cancelRef, lastTaskId, handlers, njobs,
                 ncancels, workerVars>>
  /\ UNCHANGED planVars

\* a click on the cancel button, which is rendered while isProcessing
CancelClick ==
  /\ isProcessing
  /\ IF useWorker
     THEN /\ ncancels < MaxCancels
          /\ ncancels' = ncancels + 1
          /\ inbox' = Append(inbox, CancelMessage(
                        IF lastTaskId = NoTaskId THEN LatestId ELSE lastTaskId))
     ELSE UNCHANGED <<ncancels, inbox>>
  /\ cancelRef' = TRUE
  /\ UNCHANGED <<images, wmImageDataUrl, useWorker, isProcessing, progress, resultUrl, lastTaskId,
                 handlers, jobs, njobs, cancelled, posted, ndelivered>>
  /\ UNCHANGED planVars

WorkerStep ==
  \/ OnMessage
  \/ \E r \in JobIds, ok \in BOOLEAN : DecodeSettled(r, ok)
  \/ \E r \in JobIds, ok \in BOOLEAN : WatermarkSettled(r, ok)
  \/ \E r \in JobIds, ok \in BOOLEAN : EncodeSettled(r, ok)

MainStep ==
  \/ \E r \in JobIds : FirstFrame(r)
  \/ \E r \in JobIds, ok \in BOOLEAN, ctx \in BOOLEAN : LoadSettled(r, ok, ctx)
  \/ \E r \in JobIds : NextFrame(r)
  \/ \E r \in JobIds, ok \in BOOLEAN : MainWatermarkSettled(r, ok)
  \/ Deliver
  \/ CancelClick

Next == Generate \/ MainStep \/ WorkerStep

\* The component as rendered: one job at a time.
Spec == Init /\ [][Next]_vars

\* Promises settle, posted messages are dispatched and animation frames fire.
Fairness ==
  /\ WF_vars(OnMessage)
  /\ WF_vars(\E r \in JobIds, ok \in BOOLEAN : DecodeSettled(r, ok))
  /\ WF_vars(\E r \in JobIds, ok \in BOOLEAN : WatermarkSettled(r, ok))
  /\ WF_vars(\E r \in JobIds, ok \in BOOLEAN : EncodeSettled(r, ok))
  /\ WF_vars(Deliver)

FairSpec == Init /\ [][Next]_vars /\ Fairness

\* doStitch called whatever isProcessing is (the function itself has no
\* guard; only the button is disabled), with the worker pipeline in use and
\* no watermark image set, so that requests overlap in the worker and
\* several listeners are registered.
InitOpen == Init /\ useWorker = TRUE /\ wmImageDataUrl = FALSE

NextOpen ==
  \/ DoStitchStart
  \/ \E r \in JobIds : FirstFrame(r)
  \/ Deliver
  \/ OnMessage
  \/ \E r \in JobIds, ok \in BOOLEAN : DecodeSettled(r, ok)
  \/ \E r \in JobIds, ok \in BOOLEAN : EncodeSettled(r, ok)

SpecOpen == InitOpen /\ [][NextOpen]_vars

\* ------------------------------------------------------------ job control
\* the terminal messages posted so far with the id of job r
TerminalsOf(r) == SelectSeq(posted, LAMBDA m : m.id = jobs[r].id /\ IsTerminal(m))
ProgressOf(r) == SelectSeq(posted, LAMBDA m : m.id = jobs[r].id /\ m.type = "progress")
HasPosted(r, type) == \E k \in DOMAIN posted : posted[k].id = jobs[r].id /\ posted[k].type = type

C2_EarlyCancelPostsCancelled ==
  [][\A r \in JobIds :
       (/\ jobs[r].pc = "decoding"
        /\ jobs[r].id \in cancelled
        /\ jobs'[r].pc # "decoding"
        /\ ~(\E k \in DOMAIN posted' : /\ posted'[k].id = jobs[r].id
                                       /\ posted'[k].message = "decode"))
       => /\ jobs'[r].pc = "done"
          /\ Len(posted') = Len(posted) + 1
          /\ posted'[Len(posted')].id = jobs[r].id
          /\ posted'[Len(posted')].type = "cancelled"]_vars

\* the job has seen its cancellation flag set at a check boundary: the
\* worker's checkCancelled threw, its late check posted cancelled, or the
\* main-thread loop returned on cancelRef
Observed(r) ==
  \/ jobs[r].pc = "cancelled"
  \/ \E k \in DOMAIN posted :
       /\ posted[k].id = jobs[r].id
       /\ \/ posted[k].type = "cancelled"
          \/ posted[k].type = "error" /\ posted[k].message = "cancelled"

\* C3: a job that has observed its cancellation flag at a check boundary has
\* not encoded its canvas, has no result message and has not set resultUrl.
C3_NoOutputAfterCancel ==
  \A r \in JobIds :
    Observed(r) => /\ ~jobs[r].encoded
                   /\ ~HasPosted(r, "result")
                   /\ resultUrl # r

\* both executors' checks were honoured: a worker job ended on its late check
\* or a main-thread job returned on cancelRef, all its images drawn
C3_Witness ==
  \E r \in JobIds : /\ Observed(r)
                    /\ jobs[r].drawn = jobs[r].n
                    /\ jobs[r].pc \in {"done", "cancelled"}

\* C4: the k-th progress message of a job has the value k/n, so the values
\* rise strictly in image order, and nothing follows a terminal message
\* with the same id.
C4_ProgressThenTerminal ==
  /\ \A r \in JobIds : \A k \in DOMAIN ProgressOf(r) :
       ProgressOf(r)[k].value = Frac(k, jobs[r].n)
  /\ \A p, q \in DOMAIN posted :
       (p < q /\ posted[p].id = posted[q].id) => ~IsTerminal(posted[p])

\* a job posted two progress messages and then its terminal message
C4_Witness ==
  \E r \in JobIds : Len(ProgressOf(r)) >= 2 /\ Len(TerminalsOf(r)) = 1

\* C5: no job that ended cancelled or with an error has reported the
\* progress value 1.0 (a progress message in the worker, setProgress on the
\* main thread).
C5_FullProgressOnlyOnSuccess ==
  \A r \in JobIds :
    /\ (HasPosted(r, "cancelled") \/ HasPosted(r, "error"))
         => \A k \in DOMAIN ProgressOf(r) : ~IsOne(ProgressOf(r)[k].value)
    /\ jobs[r].pc \in {"cancelled", "failed"} => ~IsOne(jobs[r].reported)

MessageTypes == {"progress", "result", "cancelled", "error"}

\* C6: every posted message carries the id of the request that produced it,
\* and a listener registered for another id leaves the progress, the result,
\* the processing state and the listeners as they are, whatever the type of
\* the message about to be dispatched.
C6_StaleMessagesIgnored ==
  /\ \A k \in DOMAIN posted : posted[k].id = jobs[posted[k].job].id
  /\ ndelivered < Len(posted) =>
       \A h \in DOMAIN handlers : \A type \in MessageTypes :
         LET m == [posted[ndelivered + 1] EXCEPT !.type = type] IN
           handlers[h] # m.id => onMsg(handlers[h], m, UiState) = UiState

\* a message of one job is about to be dispatched while the listener of
\* another job, and its own, are registered
C6_Witness ==
  /\ ndelivered < Len(posted)
  /\ \E h \in DOMAIN handlers : handlers[h] # posted[ndelivered + 1].id
  /\ \E h \in DOMAIN handlers : handlers[h] = posted[ndelivered + 1].id

\* ------------------------------------------------------ planner inputs
Natural == [w : 1..MaxDim, h : 1..MaxDim]
\* Target sizes, raw extent, scale and final size do not depend on the order
\* of the images, so one list stands for its permutations: the one in
\* non-decreasing order of (w, h).
SizeKey(img) == img.w * (MaxDim + 1) + img.h
Ordered(imgs) ==
  \A k \in DOMAIN imgs : k = 1 \/ SizeKey(imgs[k - 1]) <= SizeKey(imgs[k])
SizeLists == {imgs \in UNION {[1..n -> Natural] : n \in 1..MaxImages} : Ordered(imgs)}
UniformValues == {Unset} \cup 1..MaxUniform
LimitValues == {Unset} \cup 1..MaxLimit
OptionSets ==
  [orientation : {"vertical", "horizontal"}, gap : {0, MaxGap},
   uniformItemWidth : UniformValues, uniformItemHeight : UniformValues,
   maxOutputWidth : LimitValues, maxOutputHeight : LimitValues]

\* any loaded images and any options, no job started
InitPlan ==
  /\ sizes \in SizeLists
  /\ options \in OptionSets
  /\ plan = NoPlan
  /\ ingest = NoIngest
  /\ render = NoRender
  /\ images = Len(sizes)
  /\ wmImageDataUrl = FALSE
  /\ useWorker = TRUE
  /\ isProcessing = FALSE
  /\ progress = Frac(0, 1)
  /\ resultUrl = 0
  /\ cancelRef = FALSE
  /\ lastTaskId = NoTaskId
  /\ handlers = <<>>
  /\ jobs = [r \in JobIds |-> NoJob]
  /\ njobs = 0
  /\ ncancels = 0
  /\ inbox = <<>>
  /\ cancelled = {}
  /\ posted = <<>>
  /\ ndelivered = 0

protocolVars == <<images, wmImageDataUrl, useWorker, isProcessing, progress,
                  resultUrl, cancelRef, lastTaskId, handlers, jobs, njobs,
                  ncancels, inbox, cancelled, posted, ndelivered>>

\* doStitch plans the layout of the loaded images on the main thread (one
\* planning per behaviour)
PlanMain ==
  /\ plan = NoPlan
  /\ plan' = planMain(sizes, options)
  /\ UNCHANGED <<options, sizes, ingest, render, protocolVars>>

\* handleRequest plans the layout of the request's images
PlanWorker ==
  /\ plan = NoPlan
  /\ plan' = planWorker(sizes, options)
  /\ UNCHANGED <<options, sizes, ingest, render, protocolVars>>

NextPlan == PlanMain \/ PlanWorker

SpecPlan == InitPlan /\ [][NextPlan]_vars

Planned == plan.planner # "none"

Fits(raw, limit) == ~IsNumber(limit) \/ raw <= limit

UsesWidth(o) ==
  IsNumber(o.uniformItemWidth)
    /\ (o.orientation = "vertical" \/ ~IsNumber(o.uniformItemHeight))
UsesHeight(o) ==
  IsNumber(o.uniformItemHeight)
    /\ (o.orientation = "horizontal" \/ ~IsNumber(o.uniformItemWidth))

\* C9: in either planner every target width is the uniform width when that
\* is the governing value, and every target height the uniform height when
\* that is.
C9_ActiveAxisUniform ==
  Planned =>
    \A k \in DOMAIN plan.sized :
      /\ UsesWidth(options) => plan.sized[k].tw = options.uniformItemWidth
      /\ UsesHeight(options) => plan.sized[k].th = options.uniformItemHeight

\* C10: under a uniform-size constraint every target width and height of
\* either planner is at least 1.
C10_TargetAtLeastOne ==
  (Planned /\ (IsNumber(options.uniformItemWidth)
                 \/ IsNumber(options.uniformItemHeight))) =>
    \A k \in DOMAIN plan.sized : plan.sized[k].tw >= 1 /\ plan.sized[k].th >= 1

\* ------------------------------------------------------------ the draw loops
Aligns == {"start", "center", "end"}

\* dw, dh = Math.max(1, Math.round(target * scale))
drawSize(it, sc) ==
  [dw |-> Max(1, Round(it.tw * sc.num, sc.den)),
   dh |-> Max(1, Round(it.th * sc.num, sc.den))]

\* (faulty variant, not the code) center is treated as start
crossOffsetNoCenter(align, extent, size) ==
  IF align = "end" THEN extent - size ELSE 0

\* the cross-axis offset of an image: 0, Math.round((extent - size) / 2) or
\* extent - size
crossOffset(align, extent, size) ==
  IF align = "start" THEN 0
  ELSE IF align = "center" THEN Round(extent - size, 2)
  ELSE extent - size

\* (faulty variant, not the code) the gap band is drawn before the first
\* image too
gapBandAlways(pos, i, scaledGap) == pos + scaledGap

\* the gap band before image i (1-based; the code's i > 0): the position on
\* the main axis moves on by scaledGap
gapBand(pos, i, scaledGap) ==
  IF i > 1 /\ scaledGap > 0 THEN pos + scaledGap ELSE pos

\* (faulty variant, not the code) a band is filled before the first image too
gapFillFirstToo(p, o, i, pos) ==
  IF p.scaledGap > 0
  THEN <<IF o.orientation = "vertical"
         THEN [x |-> 0, y |-> pos, w |-> p.finalW, h |-> p.scaledGap]
         ELSE [x |-> pos, y |-> 0, w |-> p.scaledGap, h |-> p.finalH]>>
  ELSE <<>>

\* the fillRect calls before image i, pos being the running offset:
\* ctx.fillRect(0, y, finalW, scaledGap) or ctx.fillRect(x, 0, scaledGap,
\* finalH) when i > 0 && scaledGap > 0
gapFill(p, o, i, pos) ==
  IF i > 1 /\ p.scaledGap > 0
  THEN <<IF o.orientation = "vertical"
         THEN [x |-> 0, y |-> pos, w |-> p.finalW, h |-> p.scaledGap]
         ELSE [x |-> pos, y |-> 0, w |-> p.scaledGap, h |-> p.finalH]>>
  ELSE <<>>

\* the source rectangle of ctx.drawImage(it.img, 0, 0, it.tw, it.th, ...)
sourceRect(it) == [sx |-> 0, sy |-> 0, sw |-> it.tw, sh |-> it.th]

\* The draw loop from image i on, pos being the running y (vertical) or x
\* (horizontal): the bands filled before each image, where the image is
\* drawn, at what size and from which source rectangle.  The loops of
\* doStitch and handleRequest are the same code.
RECURSIVE drawFrom(_, _, _, _)
drawFrom(p, o, i, pos) ==
  IF i > Len(p.sized) THEN <<>>
  ELSE LET d == drawSize(p.sized[i], p.scale)
           at == gapBand(pos, i, p.scaledGap)
       IN  IF o.orientation = "vertical"
           THEN <<[x |-> crossOffset(o.align, p.finalW, d.dw), y |-> at,
                   dw |-> d.dw, dh |-> d.dh, src |-> sourceRect(p.sized[i]),
                   bands |-> gapFill(p, o, i, pos)]>>
                  \o drawFrom(p, o, i + 1, at + d.dh)
           ELSE <<[x |-> at, y |-> crossOffset(o.align, p.finalH, d.dh),
                   dw |-> d.dw, dh |-> d.dh, src |-> sourceRect(p.sized[i]),
                   bands |-> gapFill(p, o, i, pos)]>>
                  \o drawFrom(p, o, i + 1, at + d.dw)

drawImages(p, o) == drawFrom(p, o, 1, 0)

\* the images and options of the documented stacking example
ExampleImages == <<[w |-> 100, h |-> 200], [w |-> 150, h |-> 200], [w |-> 100, h |-> 300]>>
ExampleOptions ==
  [orientation |-> "vertical", align |-> "center", gap |-> 10,
   uniformItemWidth |-> Unset, uniformItemHeight |-> Unset,
   maxOutputWidth |-> Unset, maxOutputHeight |-> Unset]

LayoutOptionSets ==
  [orientation : {"vertical", "horizontal"}, align : Aligns, gap : {0, MaxGap},
   uniformItemWidth : {Unset}, uniformItemHeight : {Unset},
   maxOutputWidth : LimitValues, maxOutputHeight : LimitValues]

\* no job was started and the worker is idle
ProtocolIdle ==
  /\ wmImageDataUrl = FALSE
  /\ useWorker = TRUE
  /\ isProcessing = FALSE
  /\ progress = Frac(0, 1)
  /\ resultUrl = 0
  /\ cancelRef = FALSE
  /\ lastTaskId = NoTaskId
  /\ handlers = <<>>
  /\ jobs = [r \in JobIds |-> NoJob]
  /\ njobs = 0
  /\ ncancels = 0
  /\ inbox = <<>>
  /\ cancelled = {}
  /\ posted = <<>>
  /\ ndelivered = 0

InitLayout ==
  /\ sizes \in SizeLists \cup {ExampleImages}
  /\ options \in LayoutOptionSets \cup {ExampleOptions}
  /\ plan = NoPlan
  /\ ingest = NoIngest
  /\ render = NoRender
  /\ images = Len(sizes)
  /\ ProtocolIdle

\* doStitch plans the layout and draws the images on the main thread
DrawMain ==
  /\ plan = NoPlan
  /\ LET p == planMain(sizes, options) IN
       plan' = p @@ [placed |-> drawImages(p, options)]
  /\ UNCHANGED <<options, sizes, ingest, render, protocolVars>>

\* handleRequest plans the layout and draws the images
DrawWorker ==
  /\ plan = NoPlan
  /\ LET p == planWorker(sizes, options) IN
       plan' = p @@ [placed |-> drawImages(p, options)]
  /\ UNCHANGED <<options, sizes, ingest, render, protocolVars>>

NextLayout == DrawMain \/ DrawWorker

SpecLayout == InitLayout /\ [][NextLayout]_vars

\* the final content size across the stacking axis, and an image's draw size
\* on that axis
CrossExtent == IF options.orientation = "vertical" THEN plan.finalW ELSE plan.finalH
CrossSize(d) == IF options.orientation = "vertical" THEN d.dw ELSE d.dh
CrossAt(d) == IF options.orientation = "vertical" THEN d.x ELSE d.y

\* C11: every image is placed across the stacking axis at 0 with align start,
\* at extent - size with align end, and with align center so that the
\* leftover before it and the leftover after it differ by at most 1.
C11_CrossAxisPlacement ==
  Planned =>
    \A k \in DOMAIN plan.placed :
      LET d == plan.placed[k]
          before == CrossAt(d)
          after == CrossExtent - CrossSize(d) - CrossAt(d)
      IN /\ options.align = "start" => before = 0
         /\ options.align = "end" => before = CrossExtent - CrossSize(d)
         /\ options.align = "center" => (before - after) \in {-1, 0, 1}

\* a centered image with an odd leftover, in a layout scaled down
C11_Witness ==
  /\ Planned
  /\ options.align = "center"
  /\ ~IsOne(plan.scale)
  /\ \E k \in DOMAIN plan.placed :
       (CrossExtent - CrossSize(plan.placed[k])) % 2 = 1

IsExample == Planned /\ sizes = ExampleImages /\ options = ExampleOptions

\* C12 (as documented): the example plan has raw size 150 x 720, scale 1,
\* x offsets 25, 0, 25 and y offsets 0, 210, 430.
C12_ExamplePlan ==
  IsExample =>
    /\ plan.rawW = 150 /\ plan.rawH = 720 /\ IsOne(plan.scale)
    /\ [k \in DOMAIN plan.placed |-> plan.placed[k].x] = <<25, 0, 25>>
    /\ [k \in DOMAIN plan.placed |-> plan.placed[k].y] = <<0, 210, 430>>

\* C12 (amended): the example plan has raw size 150 x 720, scale 1, x offsets
\* 25, 0, 25 and y offsets 0, 210, 420, in either executor.
C12_ExamplePlanAmended ==
  IsExample =>
    /\ plan.rawW = 150 /\ plan.rawH = 720 /\ IsOne(plan.scale)
    /\ [k \in DOMAIN plan.placed |-> plan.placed[k].x] = <<25, 0, 25>>
    /\ [k \in DOMAIN plan.placed |-> plan.placed[k].y] = <<0, 210, 420>>

\* the worker has planned and drawn the example
C12_Witness == IsExample /\ plan.planner = "worker" /\ Len(plan.placed) = 3

\* --------------------------------------------------------------- ingestion
OrientationCodes == 1..8
FileSizes == {[NoIngest EXCEPT !.w = w, !.h = h] : w \in 1..MaxDim, h \in 1..MaxDim}

\* everything but the file being ingested is as after construction
NothingLoaded ==
  /\ images = 1
  /\ sizes = <<[w |-> 1, h |-> 1]>>
  /\ options = DefaultOptions
  /\ plan = NoPlan
  /\ render = NoRender
  /\ ProtocolIdle

\* correctOrientation called with an image of any size and any code 1..8,
\* at its await of loadImage
InitOrient ==
  /\ ingest \in {[g EXCEPT !.pc = "correcting", !.exif = "present", !.orientation = c] :
                   g \in FileSizes, c \in OrientationCodes}
  /\ NothingLoaded

\* correctOrientation from the resolution of loadImage to its return: null
\* without a 2D context, else the canvas set up by the switch with the image
\* drawn on it
CorrectOrientation(ctx) ==
  /\ ingest.pc = "correcting"
  /\ ingest' = IF ctx
               THEN [ingest EXCEPT !.pc = "returned",
                       !.canvas = correctOrientation(ingest.w, ingest.h, ingest.orientation)]
               ELSE [ingest EXCEPT !.pc = "null"]
  /\ UNCHANGED <<options, sizes, plan, render, protocolVars>>

NextOrient == \E ctx \in BOOLEAN : CorrectOrientation(ctx)

SpecOrient == InitOrient /\ [][NextOrient]_vars

\* where the transform m puts the user-space point (x, y)
at(m, x, y) == [x |-> m.a * x + m.c * y + m.e, y |-> m.b * x + m.d * y + m.f]
Min(a, b) == IF a <= b THEN a ELSE b
\* ctx.drawImage(img, 0, 0): the canvas pixel that source pixel (px, py), the
\* unit square from (px, py) to (px + 1, py + 1), is drawn on
drawnPixel(m, px, py) ==
  LET p == at(m, px, py)
      q == at(m, px + 1, py + 1)
  IN  [x |-> Min(p.x, q.x), y |-> Min(p.y, q.y)]

\* where EXIF orientation code c says source pixel (px, py) of a w x h image
\* is displayed: 2 mirrored, 3 turned 180, 4 flipped, 5 transposed, 6 turned
\* 90 clockwise, 7 transversed, 8 turned 90 counter-clockwise
Expected(c, w, h, px, py) ==
  CASE c = 1 -> [x |-> px, y |-> py]
    [] c = 2 -> [x |-> w - 1 - px, y |-> py]
    [] c = 3 -> [x |-> w - 1 - px, y |-> h - 1 - py]
    [] c = 4 -> [x |-> px, y |-> h - 1 - py]
    [] c = 5 -> [x |-> py, y |-> px]
    [] c = 6 -> [x |-> h - 1 - py, y |-> px]
    [] c = 7 -> [x |-> h - 1 - py, y |-> w - 1 - px]
    [] c = 8 -> [x |-> py, y |-> w - 1 - px]

SourcePixels == (0..(ingest.w - 1)) \X (0..(ingest.h - 1))

\* C13: correctOrientation allocates a w x h canvas for the codes 1 to 4 and
\* an h x w canvas for the codes 5 to 8, and draws every source pixel on the
\* canvas pixel the code's rotation or mirror puts it at, inside the canvas,
\* no two source pixels on the same one.
C13_OrientationCorrect ==
  ingest.pc = "returned" =>
    LET c == ingest.orientation
        cv == ingest.canvas
    IN /\ c \in 1..4 => cv.width = ingest.w /\ cv.height = ingest.h
       /\ c \in 5..8 => cv.width = ingest.h /\ cv.height = ingest.w
       /\ \A s \in SourcePixels :
            LET d == drawnPixel(cv.m, s[1], s[2]) IN
              /\ d = Expected(c, ingest.w, ingest.h, s[1], s[2])
              /\ d.x \in 0..(cv.width - 1) /\ d.y \in 0..(cv.height - 1)
       /\ \A s, t \in SourcePixels :
            drawnPixel(cv.m, s[1], s[2]) = drawnPixel(cv.m, t[1], t[2]) => s = t

\* a non-square image was corrected for code 7 (mirror and quarter turn)
C13_Witness ==
  /\ ingest.pc = "returned"
  /\ ingest.orientation = 7
  /\ ingest.w > ingest.h /\ ingest.h > 1

\* what exifr.parse can give: it throws, it finds no EXIF data, or it gives
\* the tags, with Orientation absent (0) or 1..8
ParseOutcomes ==
  {[exif |-> "failed", orientation |-> 0], [exif |-> "absent", orientation |-> 0]}
    \cup {[exif |-> "present", orientation |-> c] : c \in {0} \cup OrientationCodes}

\* fileToLoadedImage called on a file, at its await of the FileReader
InitIngest ==
  /\ ingest \in {[g EXCEPT !.pc = "reading"] : g \in FileSizes}
  /\ NothingLoaded

\* the FileReader settles: the data URL, or fileToLoadedImage rejects
ReadSettled(ok) ==
  /\ ingest.pc = "reading"
  /\ ingest' = [ingest EXCEPT !.pc = IF ok THEN "parsing" ELSE "rejected"]
  /\ UNCHANGED <<options, sizes, plan, render, protocolVars>>

\* (faulty variant, not the code) a parse failure is not caught
onParseUncaught(g, out) ==
  IF out.exif = "failed"
  THEN [g EXCEPT !.exif = "failed", !.pc = "rejected"]
  ELSE IF out.exif = "present" /\ out.orientation # 0 /\ out.orientation # 1
  THEN [g EXCEPT !.exif = out.exif, !.orientation = out.orientation,
                 !.pc = "correcting"]
  ELSE [g EXCEPT !.exif = out.exif, !.orientation = out.orientation,
                 !.pc = "loading"]

\* fileToLoadedImage from the settling of exifr.parse to its next await: the
\* catch block warns and goes on to the plain load; an orientation other
\* than 1 goes to correctOrientation
onParse(g, out) ==
  IF out.exif = "failed"
  THEN [g EXCEPT !.exif = "failed", !.warned = TRUE, !.pc = "loading"]
  ELSE IF out.exif = "present" /\ out.orientation # 0 /\ out.orientation # 1
  THEN [g EXCEPT !.exif = out.exif, !.orientation = out.orientation,
                 !.pc = "correcting"]
  ELSE [g EXCEPT !.exif = out.exif, !.orientation = out.orientation,
                 !.pc = "loading"]

ParseSettled(out) ==
  /\ ingest.pc = "parsing"
  /\ ingest' = onParse(ingest, out)
  /\ UNCHANGED <<options, sizes, plan, render, protocolVars>>

\* loadImage inside correctOrientation settles: a rejection is caught by
\* fileToLoadedImage, null (no 2D context) falls through to the plain load,
\* else the corrected data URL is loaded
CorrectSettled(ok, ctx) ==
  /\ ingest.pc = "correcting"
  /\ ingest' = IF ~ok THEN [ingest EXCEPT !.warned = TRUE, !.pc = "loading"]
               ELSE IF ~ctx THEN [ingest EXCEPT !.pc = "loading"]
               ELSE [ingest EXCEPT !.pc = "reloading",
                       !.canvas = correctOrientation(ingest.w, ingest.h, ingest.orientation)]
  /\ UNCHANGED <<options, sizes, plan, render, protocolVars>>

\* loadImage(corrected.dataUrl) settles
ReloadSettled(ok) ==
  /\ ingest.pc = "reloading"
  /\ ingest' = IF ok
               THEN [ingest EXCEPT !.pc = "loaded", !.url = "corrected",
                       !.width = ingest.canvas.width, !.height = ingest.canvas.height]
               ELSE [ingest EXCEPT !.warned = TRUE, !.pc = "loading"]
  /\ UNCHANGED <<options, sizes, plan, render, protocolVars>>

\* loadImage(dataUrl) settles: the LoadedImage of the unmodified data URL
PlainLoadSettled(ok) ==
  /\ ingest.pc = "loading"
  /\ ingest' = IF ok
               THEN [ingest EXCEPT !.pc = "loaded", !.url = "original",
                       !.width = ingest.w, !.height = ingest.h]
               ELSE [ingest EXCEPT !.pc = "rejected"]
  /\ UNCHANGED <<options, sizes, plan, render, protocolVars>>

NextIngest ==
  \/ \E ok \in BOOLEAN : ReadSettled(ok)
  \/ \E out \in ParseOutcomes : ParseSettled(out)
  \/ \E ok \in BOOLEAN, ctx \in BOOLEAN : CorrectSettled(ok, ctx)
  \/ \E ok \in BOOLEAN : ReloadSettled(ok)
  \/ \E ok \in BOOLEAN : PlainLoadSettled(ok)

SpecIngest == InitIngest /\ [][NextIngest]_vars

\* C15: a failure of the EXIF parse does not end the ingestion: the step that
\* meets it only logs a warning and goes on to load the unmodified data URL,
\* no orientation correction is made, and the LoadedImage then returned has
\* the unmodified data URL and the image's own width and height.
C15_ExifFailureNonFatal ==
  /\ [][(ingest.pc = "parsing" /\ ingest'.exif = "failed")
          => (ingest'.pc = "loading" /\ ingest'.warned)]_vars
  /\ [](ingest.exif = "failed" =>
          /\ ingest.warned
          /\ ingest.canvas = NoCanvas
          /\ ingest.pc = "loaded" =>
               /\ ingest.url = "original"
               /\ ingest.width = ingest.w /\ ingest.height = ingest.h)

\* a file whose EXIF parse failed was ingested
C15_Witness ==
  /\ ingest.exif = "failed"
  /\ ingest.pc = "loaded"
  /\ ingest.w # ingest.h

\* ------------------------------------------------- failures and late cancels
\* the load of job r's source images failed: the worker's decode rejected, or
\* the main thread's loadImage did (nothing was drawn)
DecodeFailed(r) ==
  \/ \E k \in DOMAIN posted : /\ posted[k].id = jobs[r].id
                             /\ posted[k].type = "error"
                             /\ posted[k].message = "decode"
  \/ jobs[r].mode = "main" /\ jobs[r].pc = "failed" /\ jobs[r].drawn = 0

\* every message of job r was dispatched to the listeners
AllDelivered(r) ==
  \A k \in DOMAIN posted : posted[k].id = jobs[r].id => k <= ndelivered

\* C14: a job whose source images could not be decoded delivers no result and
\* no composite, and once it has ended (its messages dispatched, no later job
\* started) isProcessing is false again, in the worker and on the main thread.
C14_DecodeFailureEndsJob ==
  \A r \in JobIds :
    DecodeFailed(r) =>
      /\ ~jobs[r].encoded
      /\ ~HasPosted(r, "result")
      /\ resultUrl # r
      /\ (AllDelivered(r) /\ njobs = r) => ~isProcessing

\* job r is past its last cancellation check: the worker awaits convertToBlob,
\* the main thread has run the check of its last loop iteration
PastLastCheck(r) ==
  \/ jobs[r].mode = "worker" /\ jobs[r].pc = "encoding"
  \/ /\ jobs[r].mode = "main"
     /\ \/ jobs[r].pc = "yield" /\ jobs[r].drawn = jobs[r].n
        \/ jobs[r].pc = "wmLoading"

\* job r's cancellation was requested
CancelRequested(r) ==
  IF jobs[r].mode = "worker" THEN jobs[r].id \in cancelled ELSE cancelRef

\* C16: when a job past its last cancellation check, whose cancellation has
\* been requested since, ends without a failure of the encoding or of the
\* watermark load, it ends with its result: the worker posts result as the
\* job's terminal message, the main thread sets resultUrl.
C16_LateCancelKeepsResult ==
  [][\A r \in JobIds :
       (/\ PastLastCheck(r)
        /\ CancelRequested(r)
        /\ jobs'[r].pc \in {"done", "finished", "cancelled"})
       => IF jobs[r].mode = "worker"
          THEN /\ Len(posted') = Len(posted) + 1
               /\ posted'[Len(posted')].id = jobs[r].id
               /\ posted'[Len(posted')].type \in {"result", "error"}
               /\ posted'[Len(posted')].type = "error"
                    => posted'[Len(posted')].message = "encode"
          ELSE /\ jobs'[r].pc = "finished"
               /\ resultUrl' = r
               /\ ~isProcessing']_vars

\* a worker job ended with its result although its id is in the cancelled set
C16_Witness ==
  \E r \in JobIds :
    /\ jobs[r].pc = "done" /\ jobs[r].id \in cancelled
    /\ HasPosted(r, "result")

\* --------------------------------------------------------------- rendering
WmPositions == {"tl", "tr", "bl", "br", "center"}
RenderSets ==
  [n : 1..MaxImages, finalW : {MaxDim}, finalH : {1, MaxDim},
   outerPadding : {0, MaxPad}, borderRadius : {0, MaxBorder},
   borderWidth : {0, MaxBorder}, wmText : BOOLEAN, wmImage : BOOLEAN,
   wmPosition : WmPositions, textW : {1}, wmW : {1, MaxDim}, wmH : {1},
   wmImageOffsetX : {-MaxOffset, 0, MaxOffset},
   wmImageOffsetY : {-MaxOffset, 0, MaxOffset}]

\* a job about to draw, with any render settings
InitRender ==
  /\ render \in {[NoRender EXCEPT !.ro = ro] : ro \in RenderSets}
  /\ images = render.ro.n
  /\ sizes = [k \in 1..images |-> [w |-> 1, h |-> 1]]
  /\ options = DefaultOptions
  /\ plan = NoPlan
  /\ ingest = NoIngest
  /\ ProtocolIdle

\* a main-thread job draws its canvas
RenderMain ==
  /\ render.by = "none"
  /\ render' = [render EXCEPT !.by = "main", !.ctx = renderMain(render.ro)]
  /\ UNCHANGED <<options, sizes, plan, ingest, protocolVars>>

\* a worker job draws its canvas
RenderWorker ==
  /\ render.by = "none"
  /\ render' = [render EXCEPT !.by = "worker", !.ctx = renderWorker(render.ro)]
  /\ UNCHANGED <<options, sizes, plan, ingest, protocolVars>>

NextRender == RenderMain \/ RenderWorker

SpecRender == InitRender /\ [][NextRender]_vars

Rendered == render.by # "none"
Ops == render.ctx.ops
Watermarks == {"wmText", "wmImage"}

\* C17: with borderWidth > 0 a job that drew its canvas stroked the border,
\* after every image and before every watermark, in either executor.
C17_BorderStroked ==
  (Rendered /\ render.ro.borderWidth > 0) =>
    \E b \in DOMAIN Ops :
      /\ Ops[b].kind = "border"
      /\ \A k \in DOMAIN Ops :
           /\ Ops[k].kind = "image" => k < b
           /\ Ops[k].kind \in Watermarks => b < k

\* C18: the border stroke and the watermarks begin with no translation and
\* no clip in effect and with every earlier save restored.
C18_NoStateLeak ==
  Rendered =>
    \A k \in DOMAIN Ops :
      Ops[k].kind \in Watermarks \cup {"border"} =>
        /\ Ops[k].entry.m = Identity
        /\ ~Ops[k].entry.clip
        /\ Ops[k].entry.depth = 0

\* C19: the image watermark is drawn at its position anchor moved by
\* (offsetX, offsetY), in either executor.
C19_WatermarkOffset ==
  Rendered =>
    \A k \in DOMAIN Ops :
      Ops[k].kind = "wmImage" =>
        LET a == wmAnchor(render.ro.wmPosition, baseOf(render.ro),
                          render.ro.wmW, render.ro.wmH)
        IN /\ Ops[k].x = a.x + HalfPx(render.ro.wmImageOffsetX)
           /\ Ops[k].y = a.y + HalfPx(render.ro.wmImageOffsetY)

\* ------------------------------------------- the worker thread, image by image
\* The worker runs beside the main thread: while handleRequest is inside its
\* synchronous draw loop the main thread goes on, and what it posts waits in
\* the worker's queue until handleRequest reaches an await.
WorkerBusy == \E r \in JobIds : jobs[r].pc = "drawing"

\* self.onmessage, run when the worker thread is free
OnMessageWhenFree ==
  /\ ~WorkerBusy
  /\ OnMessage

\* the bitmap decode settles: the catch block on a rejection or on the first
\* checkCancelled, else the worker enters its draw loop
DecodeResolved(r, ok) ==
  /\ jobs[r].pc = "decoding"
  /\ IF ok /\ ~checkCancelled(jobs[r].id, cancelled)
     THEN /\ jobs' = [jobs EXCEPT ![r].pc = "drawing"]
          /\ UNCHANGED posted
     ELSE /\ posted' = posted \o catchError(Req(r), IF ok THEN "cancelled" ELSE "decode")
          /\ jobs' = [jobs EXCEPT ![r].pc = "done"]
  /\ UNCHANGED <<uiVars, njobs, ncancels, inbox, cancelled, ndelivered>>
  /\ UNCHANGED planVars

\* one iteration of the worker's draw loop: drawImage, checkCancelled, the
\* progress post; after the last one the loop is left for the next await
DrawNext(r) ==
  /\ jobs[r].pc = "drawing"
  /\ LET i == jobs[r].drawn IN
       IF checkCancelled(jobs[r].id, cancelled)
       THEN /\ posted' = posted \o catchError(Req(r), "cancelled")
            /\ jobs' = [jobs EXCEPT ![r].pc = "done", ![r].drawn = i + 1]
       ELSE /\ posted' = Append(posted, ProgressMsg(Req(r), i, jobs[r].n))
            /\ jobs' = [jobs EXCEPT
                 ![r].drawn = i + 1,
                 ![r].pc = IF i + 1 < jobs[r].n THEN "drawing"
                           ELSE IF jobs[r].wmImage THEN "wmLoading" ELSE "encoding",
                 ![r].encoded = (i + 1 = jobs[r].n /\ ~jobs[r].wmImage)]
  /\ UNCHANGED <<uiVars, njobs, ncancels, inbox, cancelled, ndelivered>>
  /\ UNCHANGED planVars

\* job r is drawing its images: the worker is in its loop, or the main thread
\* waits for the frame before its next image
Drawing(r) ==
  \/ jobs[r].pc = "drawing"
  \/ jobs[r].mode = "main" /\ jobs[r].pc = "yield" /\ jobs[r].drawn < jobs[r].n

\* the cancel button clicked while the running job draws its images
CancelWhileDrawing ==
  /\ \E r \in JobIds : Drawing(r)
  /\ CancelClick

NextThreads ==
  \/ Generate
  \/ \E r \in JobIds : FirstFrame(r)
  \/ \E r \in JobIds, ok \in BOOLEAN, ctx \in BOOLEAN : LoadSettled(r, ok, ctx)
  \/ \E r \in JobIds : NextFrame(r)
  \/ \E r \in JobIds, ok \in BOOLEAN : MainWatermarkSettled(r, ok)
  \/ Deliver
  \/ CancelWhileDrawing
  \/ OnMessageWhenFree
  \/ \E r \in JobIds, ok \in BOOLEAN : DecodeResolved(r, ok)
  \/ \E r \in JobIds : DrawNext(r)
  \/ \E r \in JobIds, ok \in BOOLEAN : WatermarkSettled(r, ok)
  \/ \E r \in JobIds, ok \in BOOLEAN : EncodeSettled(r, ok)

SpecThreads == Init /\ [][NextThreads]_vars

\* the cancellation of job r was requested: its cancel message was posted to
\* the worker, or cancelRef is set
CancelSent(r) ==
  IF jobs[r].mode = "worker"
  THEN \/ jobs[r].id \in cancelled
       \/ \E k \in DOMAIN inbox : inbox[k].type = "cancel" /\ inbox[k].id = jobs[r].id
  ELSE cancelRef

\* C20: a job whose cancellation was requested while it draws its images
\* stops at the next per-image check: the step that draws its next image
\* draws that one image only and ends the job, nothing being encoded.
C20_CancelHonoredAtNextCheck ==
  [][\A r \in JobIds :
       (CancelSent(r) /\ jobs'[r].drawn > jobs[r].drawn)
       => /\ jobs'[r].drawn = jobs[r].drawn + 1
          /\ jobs'[r].pc \in {"done", "cancelled"}
          /\ ~jobs'[r].encoded]_vars

\* ------------------------------------------------- the check before encoding
\* C21: no job goes on to encode its canvas with its cancellation flag set:
\* the flag is read once more after the watermark step, whichever watermarks
\* are configured, in the worker and on the main thread.
C21_CheckedBeforeEncoding ==
  [][\A r \in JobIds :
       (~jobs[r].encoded /\ jobs'[r].encoded) => ~CancelRequested(r)]_vars

\* ------------------------------------------------- flags of several jobs
\* doStitch called whatever isProcessing is, with the worker pipeline in
\* use, and the cancel button: requests overlap in the worker while cancel
\* messages come in for the id stored last. The responses stay undelivered
\* (the listeners act on the component only).
InitCancel == Init /\ useWorker = TRUE /\ images = MaxImages

NextCancel ==
  \/ DoStitchStart
  \/ \E r \in JobIds : FirstFrame(r)
  \/ CancelClick
  \/ OnMessage
  \/ \E r \in JobIds, ok \in BOOLEAN : DecodeSettled(r, ok)
  \/ \E r \in JobIds, ok \in BOOLEAN : WatermarkSettled(r, ok)
  \/ \E r \in JobIds, ok \in BOOLEAN : EncodeSettled(r, ok)

SpecCancel == InitCancel /\ [][NextCancel]_vars

\* the message the worker handles next is a cancel message
CancelArrives ==
  inbox # <<>> /\ Head(inbox).type = "cancel" /\ inbox' = Tail(inbox)

\* job r ends in this step with cancelled, or with the error of a
\* checkCancelled that threw
EndsCancelled(r) ==
  /\ jobs[r].pc # "done" /\ jobs'[r].pc = "done"
  /\ Len(posted') > Len(posted)
  /\ LET m == posted'[Len(posted')] IN
       \/ m.type = "cancelled"
       \/ m.type = "error" /\ m.message = "cancelled"

\* C22: the flags are kept per id. A cancel message sets the flag of its own
\* id only and ends no job by itself, and a job ends cancelled (or with the
\* error of a cancellation) only when the flag of its own id is set, whatever
\* other ids are flagged and whether their jobs ran before, run now or are
\* yet to come.
C22_IndependentFlags ==
  [][/\ CancelArrives =>
          /\ cancelled' = cancelled \cup {Head(inbox).id}
          /\ jobs' = jobs /\ posted' = posted
     /\ ~CancelArrives => cancelled' \subseteq cancelled
     /\ \A r \in JobIds : EndsCancelled(r) => jobs[r].id \in cancelled]_vars

\* a job has ended with its result while the flag of another job, still
\* being handled, is set
C22_Witness ==
  \E a, b \in JobIds :
    /\ a # b
    /\ jobs[a].id \in cancelled /\ jobs[a].pc \in {"decoding", "wmLoading"}
    /\ jobs[b].pc = "done" /\ HasPosted(b, "result")

\* ---------------------------------------------------------- the gap bands
\* the offset and the size of a drawn image along the stacking axis, and the
\* same for a band
MainAt(d) == IF options.orientation = "vertical" THEN d.y ELSE d.x
MainSize(d) == IF options.orientation = "vertical" THEN d.dh ELSE d.dw
MainExtent == IF options.orientation = "vertical" THEN plan.finalH ELSE plan.finalW
BandAt(b) == IF options.orientation = "vertical" THEN b.y ELSE b.x
BandThickness(b) == IF options.orientation = "vertical" THEN b.h ELSE b.w
BandCrossAt(b) == IF options.orientation = "vertical" THEN b.x ELSE b.y
BandCrossSize(b) == IF options.orientation = "vertical" THEN b.w ELSE b.h

RECURSIVE CountBands(_)
CountBands(placed) ==
  IF placed = <<>> THEN 0 ELSE Len(Head(placed).bands) + CountBands(Tail(placed))

\* C23: with scaledGap > 0 the n images get exactly n - 1 bands of thickness
\* scaledGap: none before the first image, and one before each later image,
\* starting where the image before it ends, ending where the image starts
\* and spanning the whole content extent across the stacking axis.
C23_GapBands ==
  (Planned /\ plan.scaledGap > 0) =>
    /\ CountBands(plan.placed) = Len(plan.placed) - 1
    /\ plan.placed[1].bands = <<>>
    /\ \A k \in 2..Len(plan.placed) :
         LET d == plan.placed[k]
             prev == plan.placed[k - 1]
         IN /\ Len(d.bands) = 1
            /\ BandThickness(d.bands[1]) = plan.scaledGap
            /\ BandAt(d.bands[1]) = MainAt(prev) + MainSize(prev)
            /\ MainAt(d) = BandAt(d.bands[1]) + plan.scaledGap
            /\ BandCrossAt(d.bands[1]) = 0
            /\ BandCrossSize(d.bands[1]) = CrossExtent

\* several images drawn with a gap, in a layout scaled down
C23_Witness ==
  /\ Planned /\ plan.scaledGap > 0
  /\ Len(plan.placed) >= 2
  /\ ~IsOne(plan.scale)
  /\ CountBands(plan.placed) = Len(plan.placed) - 1

\* ------------------------------------------------ inside the content area
\* C24: every image is drawn inside the content area: the draw sizes and the
\* scaled gaps along the stacking axis end within the final extent, and
\* across it the offset is at least 0 and offset plus size at most the final
\* extent.
C24_InsideContent ==
  Planned =>
    \A k \in DOMAIN plan.placed :
      LET d == plan.placed[k] IN
        /\ MainAt(d) >= 0 /\ MainAt(d) + MainSize(d) <= MainExtent
        /\ CrossAt(d) >= 0 /\ CrossAt(d) + CrossSize(d) <= CrossExtent

\* ------------------------------------------------- the source rectangles
\* any loaded images and any uniform size, unscaled, drawn by either
\* executor
SourceOptionSets ==
  [orientation : {"vertical", "horizontal"}, align : {"center"}, gap : {0},
   uniformItemWidth : UniformValues, uniformItemHeight : UniformValues,
   maxOutputWidth : {Unset}, maxOutputHeight : {Unset}]

InitSource ==
  /\ sizes \in SizeLists
  /\ options \in SourceOptionSets
  /\ plan = NoPlan
  /\ ingest = NoIngest
  /\ render = NoRender
  /\ images = Len(sizes)
  /\ ProtocolIdle

SpecSource == InitSource /\ [][NextLayout]_vars

\* C25: the source rectangle of every image drawn is its whole native
\* bitmap, (0, 0, native width, native height), whatever the uniform size.
C25_WholeImageDrawn ==
  Planned =>
    \A k \in DOMAIN plan.placed :
      plan.placed[k].src = [sx |-> 0, sy |-> 0, sw |-> sizes[k].w, sh |-> sizes[k].h]

\* ------------------------------------------------- the two executors agree
\* the layout the other executor computes and draws for the same images and
\* options
OtherLayout ==
  LET p == IF plan.planner = "main" THEN planWorker(sizes, options)
           ELSE planMain(sizes, options)
  IN  p @@ [placed |-> drawImages(p, options)]

\* C26: for the same images and options doStitch and handleRequest compute
\* the same layout: target sizes, scale, final content size, scaled gap and
\* the draw rectangle of each image.
C26_SameLayout ==
  Planned =>
    /\ plan.sized = OtherLayout.sized
    /\ plan.scale = OtherLayout.scale
    /\ plan.finalW = OtherLayout.finalW /\ plan.finalH = OtherLayout.finalH
    /\ plan.scaledGap = OtherLayout.scaledGap
    /\ plan.placed = OtherLayout.placed

\* ------------------------------------------------------- jobs retire
\* the main-thread doStitch of job r has returned or rejected: no code of
\* the job is left to run
DoStitchEnded(r) ==
  /\ jobs[r].mode = "main"
  /\ jobs[r].pc \in {"finished", "cancelled", "failed", "noctx"}

\* C27: a job retires: once the doStitch of the job started last has ended,
\* however it ended (result, cancellation, image load failure, no 2D
\* context), isProcessing is false again.
C27_JobsRetire ==
  \A r \in JobIds : (r = njobs /\ DoStitchEnded(r)) => ~isProcessing

\* --------------------------------------------- the id of a cancel message
\* the cancel button posts a cancel message in this step
CancelPosted ==
  /\ Len(inbox') = Len(inbox) + 1
  /\ inbox'[Len(inbox')].type = "cancel"

\* C28: every cancel message the cancel button posts carries the id of the
\* job that is processing when it is clicked (the job started last), never
\* the id of an earlier job nor the placeholder __latest__.
C28_CancelCarriesJobId ==
  [][CancelPosted =>
       /\ jobs[njobs].id # NoTaskId
       /\ inbox'[Len(inbox')].id = jobs[njobs].id]_vars

\* ------------------------------------------------------ one job at a time
\* job r was started and has not reached its outcome: its doStitch or its
\* handleRequest has code left to run
InFlight(r) ==
  jobs[r].pc \notin {"idle", "done", "finished", "cancelled", "failed", "noctx"}

\* C29: at most one job is in flight: whenever doStitch starts a job, every
\* job started before has reached its outcome, and no two jobs are ever in
\* flight together.
C29_OneJobInFlight ==
  /\ [](Cardinality({r \in JobIds : InFlight(r)}) <= 1)
  /\ [][njobs' = njobs + 1 => \A r \in JobIds : ~InFlight(r)]_vars

\* a second job is in flight, started after the first reached its outcome
C29_Witness ==
  \E r \in JobIds : r > 1 /\ InFlight(r) /\ jobs[r].pc # "frame" /\ ~InFlight(r - 1)

\* ------------------------------------------------------- the canvas size
\* (faulty variant, not the code) the canvas takes the unscaled content size
canvasSizeRaw(p, o) ==
  baseOf([finalW |-> p.rawW, finalH |-> p.rawH,
          outerPadding |-> Max(0, o.outerPadding)])

\* pad = Math.max(0, outerPadding); the canvas is paddedW x paddedH =
\* (finalW + pad * 2) x (finalH + pad * 2)
canvasSize(p, o) ==
  baseOf([finalW |-> p.finalW, finalH |-> p.finalH,
          outerPadding |-> Max(0, o.outerPadding)])

CanvasOptionSets ==
  [orientation : {"vertical", "horizontal"}, align : {"center"}, gap : {0},
   uniformItemWidth : {Unset}, uniformItemHeight : {Unset},
   maxOutputWidth : LimitValues, maxOutputHeight : LimitValues,
   outerPadding : 0..MaxPad]

InitCanvas ==
  /\ sizes \in SizeLists
  /\ options \in CanvasOptionSets
  /\ plan = NoPlan
  /\ ingest = NoIngest
  /\ render = NoRender
  /\ images = Len(sizes)
  /\ ProtocolIdle

\* doStitch plans the layout and sizes its canvas
CanvasMain ==
  /\ plan = NoPlan
  /\ LET p == planMain(sizes, options) IN
       plan' = p @@ [canvas |-> canvasSize(p, options)]
  /\ UNCHANGED <<options, sizes, ingest, render, protocolVars>>

\* handleRequest plans the layout and creates its OffscreenCanvas
CanvasWorker ==
  /\ plan = NoPlan
  /\ LET p == planWorker(sizes, options) IN
       plan' = p @@ [canvas |-> canvasSize(p, options)]
  /\ UNCHANGED <<options, sizes, ingest, render, protocolVars>>

NextCanvas == CanvasMain \/ CanvasWorker

SpecCanvas == InitCanvas /\ [][NextCanvas]_vars

====
